---- MODULE Spec2Model ----
(***************************************************************************)
(* Model of the Moodle web-service client of moodle-grader:                *)
(* the nested-parameter encoder (_encode_inner, encode_params) and         *)
(* MoodleConnection.send, which encodes its keyword parameters and posts   *)
(* them; upload_files, upload_graded_assignment and get_submission_files   *)
(* of MoodleConnection; and the finalize command of autograder.            *)
(*                                                                         *)
(* Strings are sequences of one-character strings, so that the brackets    *)
(* of a flat key are visible: "a[0]" is <<"a", "[", "0", "]">>.            *)
(* A parameter value is a record:                                          *)
(*   [kind |-> "dict", items |-> <<[key |-> s, value |-> v], ...>>]        *)
(*   [kind |-> "list", items |-> <<v, ...>>]                               *)
(*   [kind |-> "atom", type |-> t, val |-> n]                              *)
(* A dict keeps its insertion order (the order of items) and has unique    *)
(* keys.  An atom of type "int", "float", "str" or "bool" is a ParamAtom;  *)
(* the types "none", "tuple" and "set" are Python values that are neither  *)
(* dict nor list nor ParamAtom.                                            *)
(***************************************************************************)
EXTENDS Integers, Sequences, FiniteSets, TLC

\* send and the encoder
VARIABLES params, pc, stack, yielded, result, assigned, visited, network, outputs, calls
\* invocations of encode_params that run side by side
VARIABLES runs
\* upload_files
VARIABLES paths, upc, itemid, response, uploads, replies
\* upload_graded_assignment
VARIABLES gpc, assignment_id, users, file, points, ret
\* get_submission_files
VARIABLES spc, tutorials, groups, submissions, files, seen
\* finalize
VARIABLES fpc, saved, output_exists, pdf_fields, student_data, feedback_zip, finalized, answers

encoder == <<params, pc, stack, yielded, result, assigned, visited, network, outputs, calls>>

upload == <<paths, upc, itemid, response, uploads, replies>>

grading == <<gpc, assignment_id, users, file, points, ret>>

listing == <<spc, tutorials, groups, submissions, files, seen>>

finalizing == <<fpc, saved, output_exists, pdf_fields, student_data, feedback_zip, finalized,
                answers>>

\* the operations other than send
clients == <<upload, grading, listing, finalizing>>

vars == <<encoder, runs, clients>>

\* the state that send and the encoder do not touch
others == <<runs, clients>>

(***************************************************************************)
(* Bounds                                                                  *)
(***************************************************************************)
\* largest number of nodes (containers and atoms) of a generated input
MaxNodes == 4
\* number of calls of send on the same parameters
MaxCalls == 2
\* depth of nested generator frames at which Python raises RecursionError
RecursionLimit == 7

(***************************************************************************)
(* Values                                                                  *)
(***************************************************************************)
Atom(t, n) == [kind |-> "atom", type |-> t, val |-> n]

List(items) == [kind |-> "list", items |-> items]

Dict(items) == [kind |-> "dict", items |-> items]

Item(k, v) == [key |-> k, value |-> v]

ParamAtomTypes == {"int", "str", "float", "bool"}

\* True and 1 are equal in Python but of different kinds
AtomValues == {Atom("int", 1), Atom("bool", 1), Atom("none", 0)}

\* "a" and "a[0]"
KeyValues == {<<"a">>, <<"a", "[", "0", "]">>}

\* the sequences without repetition of n elements of S
RECURSIVE Injections(_, _)
Injections(S, n) ==
    IF n = 0 THEN {<<>>}
    ELSE UNION {{<<k>> \o rest : rest \in Injections(S \ {k}, n - 1)} : k \in S}

RECURSIVE TreesOfSize(_)
RECURSIVE ForestsOfSize(_)
\* the sequences of values with n nodes in total
ForestsOfSize(n) ==
    IF n = 0 THEN {<<>>}
    ELSE UNION {{<<t>> \o f : t \in TreesOfSize(s), f \in ForestsOfSize(n - s)} : s \in 1..n}

\* the values with exactly n nodes
TreesOfSize(n) ==
    (IF n = 1 THEN AtomValues ELSE {})
    \cup {List(f) : f \in ForestsOfSize(n - 1)}
    \cup UNION {{Dict([j \in 1..Len(f) |-> Item(ks[j], f[j])]) :
                    ks \in Injections(KeyValues, Len(f))} :
                 f \in {g \in ForestsOfSize(n - 1) : Len(g) <= Cardinality(KeyValues)}}

GeneratedInputs ==
    {t \in UNION {TreesOfSize(n) : n \in 1..MaxNodes} : t.kind = "dict"}

RECURSIVE Chain(_)
\* n nested one-element lists around the integer 1
Chain(n) == IF n = 0 THEN Atom("int", 1) ELSE List(<<Chain(n - 1)>>)

\* {"a": {"b": 1, "c": [2, 3]}}
ExampleShape ==
    Dict(<<Item(<<"a">>, Dict(<<Item(<<"b">>, Atom("int", 1)),
                                Item(<<"c">>, List(<<Atom("int", 2), Atom("int", 3)>>))>>))>>)

\* {"a": [{"b": [1, 2]}, {"b": [3]}]}
ExampleDeep ==
    Dict(<<Item(<<"a">>,
        List(<<Dict(<<Item(<<"b">>, List(<<Atom("int", 1), Atom("int", 2)>>))>>),
               Dict(<<Item(<<"b">>, List(<<Atom("int", 3)>>))>>)>>))>>)

\* {"flag": True, "x": 5}
ExampleFlat ==
    Dict(<<Item(<<"f", "l", "a", "g">>, Atom("bool", 1)), Item(<<"x">>, Atom("int", 5))>>)

\* {"list": [], "x": 5, "map": {}}
ExampleEmpty ==
    Dict(<<Item(<<"l", "i", "s", "t">>, List(<<>>)),
           Item(<<"x">>, Atom("int", 5)),
           Item(<<"m", "a", "p">>, Dict(<<>>))>>)

\* {"a": [0, 1, ..., 11]}: indices of one and of two digits
ExampleLong == Dict(<<Item(<<"a">>, List([j \in 1..12 |-> Atom("int", j - 1)]))>>)

\* {"a": [[[...[1]...]]]}: nested deeper than the recursion limit allows
ExampleNested == Dict(<<Item(<<"a">>, Chain(RecursionLimit))>>)

\* {"a": ("x",), "b": [{1, 2}]}: a tuple and a set
ExampleKinds ==
    Dict(<<Item(<<"a">>, Atom("tuple", 1)), Item(<<"b">>, List(<<Atom("set", 2)>>))>>)

ExampleInputs ==
    {ExampleShape, ExampleDeep, ExampleFlat, ExampleEmpty, ExampleLong, ExampleNested,
     ExampleKinds}

Inputs == GeneratedInputs \cup ExampleInputs

RECURSIVE Products(_)
\* the sequences that take their j-th element from the j-th set
Products(sets) ==
    IF sets = <<>> THEN {<<>>}
    ELSE {<<x>> \o rest : x \in Head(sets), rest \in Products(Tail(sets))}

RECURSIVE Reorderings(_)
\* the values that differ from data only in the order of the keys of its dicts
Reorderings(data) ==
    IF data.kind = "atom" THEN {data}
    ELSE IF data.kind = "list"
    THEN {List(f) : f \in Products([j \in 1..Len(data.items) |-> Reorderings(data.items[j])])}
    ELSE LET n == Len(data.items)
         IN UNION {{Dict([j \in 1..n |-> Item(data.items[order[j]].key, f[j])]) :
                       f \in Products([j \in 1..n |-> Reorderings(data.items[order[j]].value)])} :
                    order \in Injections(1..n, n)}

(***************************************************************************)
(* The encoder                                                             *)
(***************************************************************************)
Digits == <<"0", "1", "2", "3", "4", "5", "6", "7", "8", "9">>

\* variant: positions counted from 1
str_OneBased(i) ==
    IF i + 1 < 10 THEN <<Digits[i + 2]>>
    ELSE <<Digits[((i + 1) \div 10) + 1], Digits[((i + 1) % 10) + 1]>>

RECURSIVE str(_)
\* str(i) of a non-negative int: its decimal digits
str(i) == IF i < 10 THEN <<Digits[i + 1]>> ELSE str(i \div 10) \o <<Digits[(i % 10) + 1]>>

\* variant: an empty list is taken for a scalar
IsContainer_Truthy(data) ==
    data.kind = "dict" \/ (data.kind = "list" /\ data.items # <<>>)

\* case dict(), case list() against case _
IsContainer(data) == data.kind \in {"dict", "list"}

\* variant: a boolean is yielded as the integer it equals
LeafYield_Coerced(data) ==
    [names |-> <<>>,
     elem |-> IF data.type = "bool" THEN [data EXCEPT !.type = "int"] ELSE data]

\* yield (), data
LeafYield(data) == [names |-> <<>>, elem |-> data]

\* a suspended generator of _encode_inner: the value it was called on and the
\* number of elements its for loop has taken from the value (for an atom:
\* whether it has yielded)
Frame(data) == [data |-> data, i |-> 0]

\* variant: a dict is addressed by position, like a list
Segment_ByPosition(frame) == str(frame.i - 1)

\* what a generator in its inner loop puts in front of the names it passes on:
\* key for a dict, str(i) for a list
Segment(frame) ==
    IF frame.data.kind = "dict"
    THEN frame.data.items[frame.i].key
    ELSE str(frame.i - 1)

RECURSIVE PassUp(_, _, _)
\* a pair yielded to generator n of the stack travels through the generators
\* n, ..., 1, each yielding (segment, *names), encoded
PassUp(frames, n, pair) ==
    IF n = 0 THEN pair
    ELSE PassUp(frames, n - 1, [pair EXCEPT !.names = <<Segment(frames[n])>> \o @])

\* variant: the closing bracket is missing
Bracketed_Unclosed(name) == <<"[">> \o name

\* f"[{name}]"
Bracketed(name) == <<"[">> \o name \o <<"]">>

RECURSIVE Join(_)
\* "".join(parts)
Join(parts) == IF parts = <<>> THEN <<>> ELSE Head(parts) \o Join(Tail(parts))

\* names[0] + "".join(f"[{name}]" for name in names[1:])
FlatKey(names) == names[1] \o Join([j \in 1..(Len(names) - 1) |-> Bracketed(names[j + 1])])

\* variant: a list of pairs instead of a dict
DictSet_Append(d, k, v) == Append(d, [key |-> k, value |-> v])

\* variant: an existing key keeps its value
DictSet_FirstWins(d, k, v) ==
    IF \E j \in 1..Len(d) : d[j].key = k THEN d ELSE Append(d, [key |-> k, value |-> v])

\* d[k] = v on a dict that keeps insertion order
DictSet(d, k, v) ==
    IF \E j \in 1..Len(d) : d[j].key = k
    THEN [j \in 1..Len(d) |-> IF d[j].key = k THEN Item(k, v) ELSE d[j]]
    ELSE Append(d, Item(k, v))

Top == stack[Len(stack)]

\* the place in the input of the value that the innermost generator of a
\* stack was called on: the numbers of the elements taken on the way to it
Position(frames) == [j \in 1..(Len(frames) - 1) |-> frames[j].i]

\* no upload_files call is under way
UploadIdle ==
    /\ paths = <<>>
    /\ upc = "idle"
    /\ itemid = Atom("none", 0)
    /\ response = <<>>
    /\ uploads = <<>>
    /\ replies = <<>>

\* no upload_graded_assignment call is under way
GradingIdle ==
    /\ gpc = "idle"
    /\ assignment_id = 0
    /\ users = <<>>
    /\ file = ""
    /\ points = Atom("float", 0)
    /\ ret = Atom("none", 0)

\* no get_submission_files call is under way
ListingIdle ==
    /\ spc = "idle"
    /\ tutorials = <<>>
    /\ groups = <<>>
    /\ submissions = <<>>
    /\ files = <<>>
    /\ seen = 0

\* no finalize command is under way, on an empty data file
FinalizeIdle ==
    /\ fpc = "idle"
    /\ saved = <<>>
    /\ output_exists = FALSE
    /\ pdf_fields = <<>>
    /\ student_data = <<>>
    /\ feedback_zip = <<>>
    /\ finalized = 0
    /\ answers = <<>>

\* no operation other than send is under way
ClientsIdle == UploadIdle /\ GradingIdle /\ ListingIdle /\ FinalizeIdle

Init ==
    /\ params \in Inputs
    /\ pc = "idle"
    /\ stack = <<>>
    /\ yielded = <<>>
    /\ result = <<>>
    /\ assigned = <<>>
    /\ visited = <<>>
    /\ network = <<>>
    /\ outputs = <<>>
    /\ calls = 0
    /\ runs = <<>>
    /\ ClientsIdle

\* send(function, **params): encode_params(params) is evaluated first; the
\* dict comprehension creates the outermost generator.  A later call passes
\* the same parameters, with the keys of any dict in any order.
Send ==
    /\ pc \in {"idle", "failed"}
    /\ calls < MaxCalls
    /\ calls' = calls + 1
    /\ \E data \in Reorderings(params) :
          /\ params' = data
          /\ stack' = <<Frame(data)>>
    /\ pc' = "encoding"
    /\ yielded' = <<>>
    /\ result' = <<>>
    /\ assigned' = <<>>
    /\ visited' = <<<<>>>>
    /\ UNCHANGED <<network, outputs, others>>

\* variant: the loop over the outermost dict removes the element it takes
Descend_Consuming ==
    /\ pc = "encoding"
    /\ yielded = <<>>
    /\ stack # <<>>
    /\ IsContainer(Top.data)
    /\ Top.i < Len(Top.data.items)
    /\ Len(stack) < RecursionLimit
    /\ LET elem == IF Top.data.kind = "dict"
                   THEN Top.data.items[Top.i + 1].value
                   ELSE Top.data.items[Top.i + 1]
       IN stack' = Append([stack EXCEPT ![Len(stack)].i = @ + 1], Frame(elem))
    /\ visited' = Append(visited, Position(stack'))
    /\ params' = IF Len(stack) = 1 THEN Dict(Tail(params.items)) ELSE params
    /\ UNCHANGED <<pc, yielded, result, assigned, network, outputs, calls, others>>

\* case dict(), case list(): the for loop takes the next element and calls
\* _encode_inner(elem)
Descend ==
    /\ pc = "encoding"
    /\ yielded = <<>>
    /\ stack # <<>>
    /\ IsContainer(Top.data)
    /\ Top.i < Len(Top.data.items)
    /\ Len(stack) < RecursionLimit
    /\ LET elem == IF Top.data.kind = "dict"
                   THEN Top.data.items[Top.i + 1].value
                   ELSE Top.data.items[Top.i + 1]
       IN stack' = Append([stack EXCEPT ![Len(stack)].i = @ + 1], Frame(elem))
    /\ visited' = Append(visited, Position(stack'))
    /\ UNCHANGED <<params, pc, yielded, result, assigned, network, outputs, calls, others>>

\* the same call when the generators are nested too deep: RecursionError
\* leaves the comprehension and send
Overflow ==
    /\ pc = "encoding"
    /\ yielded = <<>>
    /\ stack # <<>>
    /\ IsContainer(Top.data)
    /\ Top.i < Len(Top.data.items)
    /\ Len(stack) >= RecursionLimit
    /\ pc' = "failed"
    /\ stack' = <<>>
    /\ result' = <<>>
    /\ UNCHANGED <<params, yielded, assigned, visited, network, outputs, calls, others>>

\* case _: yield (), data; every generator above passes the pair on
Yield ==
    /\ pc = "encoding"
    /\ yielded = <<>>
    /\ stack # <<>>
    /\ ~IsContainer(Top.data)
    /\ Top.i = 0
    /\ stack' = [stack EXCEPT ![Len(stack)].i = 1]
    /\ yielded' = <<PassUp(stack, Len(stack) - 1, LeafYield(Top.data))>>
    /\ UNCHANGED <<params, pc, result, assigned, visited, network, outputs, calls, others>>

\* the comprehension stores the pair it was given
Assign ==
    /\ pc = "encoding"
    /\ yielded # <<>>
    /\ LET names == yielded[1].names
           elem == yielded[1].elem
       IN /\ result' = DictSet(result, FlatKey(names), elem)
          /\ assigned' = Append(assigned, [names |-> names, key |-> FlatKey(names), elem |-> elem])
    /\ yielded' = <<>>
    /\ UNCHANGED <<params, pc, stack, visited, network, outputs, calls, others>>

\* variant: the outermost generator never signals that it is exhausted
Exhaust_Stuck ==
    /\ pc = "encoding"
    /\ yielded = <<>>
    /\ Len(stack) > 1
    /\ IF IsContainer(Top.data) THEN Top.i = Len(Top.data.items) ELSE Top.i = 1
    /\ stack' = SubSeq(stack, 1, Len(stack) - 1)
    /\ UNCHANGED <<params, pc, yielded, result, assigned, visited, network, outputs, calls,
                   others>>

\* a generator is exhausted; when it is the outermost one, encode_params returns
Exhaust ==
    /\ pc = "encoding"
    /\ yielded = <<>>
    /\ stack # <<>>
    /\ IF IsContainer(Top.data) THEN Top.i = Len(Top.data.items) ELSE Top.i = 1
    /\ stack' = SubSeq(stack, 1, Len(stack) - 1)
    /\ IF Len(stack) = 1
       THEN /\ pc' = "encoded"
            /\ outputs' = Append(outputs, [call |-> calls, params |-> params, value |-> result])
       ELSE UNCHANGED <<pc, outputs>>
    /\ UNCHANGED <<params, yielded, result, assigned, visited, network, calls, others>>

\* variant: the request is issued with what has been encoded so far
Post_Eager ==
    /\ pc \in {"encoding", "encoded"}
    /\ network' = Append(network, [call |-> calls, params |-> result])
    /\ pc' = "posted"
    /\ UNCHANGED <<params, stack, yielded, result, assigned, visited, outputs, calls, others>>

\* requests.post(url, params=encode_params(params))
Post ==
    /\ pc = "encoded"
    /\ network' = Append(network, [call |-> calls, params |-> result])
    /\ pc' = "posted"
    /\ UNCHANGED <<params, stack, yielded, result, assigned, visited, outputs, calls, others>>

\* return json.loads(res.content)
Return ==
    /\ pc = "posted"
    /\ pc' = "idle"
    /\ UNCHANGED <<params, stack, yielded, result, assigned, visited, network, outputs, calls, others>>

Next == Send \/ Descend \/ Overflow \/ Yield \/ Assign \/ Exhaust \/ Post \/ Return

Spec == Init /\ [][Next]_vars

(***************************************************************************)
(* The input tree as the properties see it                                 *)
(***************************************************************************)
KeyStep(k) == [kind |-> "key", key |-> k]

IndexStep(n) == [kind |-> "index", index |-> n]

RECURSIVE Flatten(_)
Flatten(seqs) == IF seqs = <<>> THEN <<>> ELSE Head(seqs) \o Flatten(Tail(seqs))

RECURSIVE Leaves(_)
\* the leaves of a value, depth first in the order of its dicts and lists, each
\* with its path: the keys and the 0-based positions that lead to it
Leaves(data) ==
    IF data.kind = "atom" THEN <<[path |-> <<>>, value |-> data]>>
    ELSE Flatten([j \in 1..Len(data.items) |->
            LET step == IF data.kind = "dict" THEN KeyStep(data.items[j].key) ELSE IndexStep(j - 1)
                sub == Leaves(IF data.kind = "dict" THEN data.items[j].value ELSE data.items[j])
            IN [m \in 1..Len(sub) |-> [path |-> <<step>> \o sub[m].path, value |-> sub[m].value]]])

RECURSIVE EmptyPaths(_)
\* the paths of the empty dicts and lists of a value
EmptyPaths(data) ==
    IF data.kind = "atom" THEN {}
    ELSE IF data.items = <<>> THEN {<<>>}
    ELSE UNION {LET step == IF data.kind = "dict" THEN KeyStep(data.items[j].key) ELSE IndexStep(j - 1)
                    sub == EmptyPaths(IF data.kind = "dict" THEN data.items[j].value ELSE data.items[j])
                IN {<<step>> \o p : p \in sub} : j \in 1..Len(data.items)}

RECURSIVE Depth(_)
\* the number of nodes on the longest path from the root of a value
Depth(data) ==
    IF data.kind = "atom" \/ data.items = <<>> THEN 1
    ELSE LET ds == {Depth(IF data.kind = "dict" THEN data.items[j].value ELSE data.items[j]) :
                       j \in 1..Len(data.items)}
         IN 1 + CHOOSE d \in ds : \A e \in ds : e <= d

RECURSIVE DictKeys(_)
\* the keys of all the dicts of a value
DictKeys(data) ==
    IF data.kind = "atom" THEN {}
    ELSE IF data.kind = "list" THEN UNION {DictKeys(data.items[j]) : j \in 1..Len(data.items)}
    ELSE UNION {{data.items[j].key} \cup DictKeys(data.items[j].value) : j \in 1..Len(data.items)}

Range(f) == {f[j] : j \in DOMAIN f}

\* every leaf is an int, a float, a str or a bool
WellTyped(data) == \A l \in Range(Leaves(data)) : l.value.type \in ParamAtomTypes

\* no key of a dict contains a bracket
BracketFree(data) == \A k \in DictKeys(data) : \A j \in 1..Len(k) : k[j] \notin {"[", "]"}

DigitValue(c) == CHOOSE d \in 0..9 : Digits[d + 1] = c

RECURSIVE NumberOf(_)
\* the number that a sequence of digits denotes in base 10
NumberOf(s) ==
    IF s = <<>> THEN 0
    ELSE 10 * NumberOf(SubSeq(s, 1, Len(s) - 1)) + DigitValue(s[Len(s)])

\* the base-10 renderings without leading zeros of the numbers of one or two
\* digits
Decimals ==
    [n \in 0..99 |->
        CHOOSE s \in UNION {[1..m -> Range(Digits)] : m \in {1, 2}} :
            /\ Len(s) > 1 => s[1] # "0"
            /\ NumberOf(s) = n]

Decimal(n) == Decimals[n]

\* the segments of a path: the key of a dict step, the rendering of a list step
Segments(path) ==
    [j \in 1..Len(path) |-> IF path[j].kind = "key" THEN path[j].key ELSE Decimal(path[j].index)]

RECURSIVE InBrackets(_)
InBrackets(segs) ==
    IF segs = <<>> THEN <<>>
    ELSE <<"[">> \o Head(segs) \o <<"]">> \o InBrackets(Tail(segs))

\* s0[s1]...[sn] for the path with segments s0, ..., sn
ExpectedKey(path) == Head(Segments(path)) \o InBrackets(Tail(Segments(path)))

FirstIndex(s, c) ==
    IF \E j \in 1..Len(s) : s[j] = c
    THEN CHOOSE j \in 1..Len(s) : s[j] = c /\ \A m \in 1..(j - 1) : s[m] # c
    ELSE 0

RECURSIVE SplitBrackets(_)
\* the segments of [s1]...[sn]; <<"?">> marks text that is not of this form
SplitBrackets(s) ==
    IF s = <<>> THEN <<>>
    ELSE LET close == FirstIndex(s, "]")
         IN IF s[1] # "[" \/ close = 0 THEN <<<<"?">>>>
            ELSE <<SubSeq(s, 2, close - 1)>> \o SplitBrackets(SubSeq(s, close + 1, Len(s)))

\* the segments read back from a flat key
Decode(key) ==
    LET open == FirstIndex(key, "[")
    IN IF open = 0 THEN <<key>>
       ELSE <<SubSeq(key, 1, open - 1)>> \o SplitBrackets(SubSeq(key, open, Len(key)))

IsPrefix(s, t) == Len(s) <= Len(t) /\ SubSeq(t, 1, Len(s)) = s

\* the (flat key, value) pairs of an encoded mapping
Pairs(encoded) == Range(encoded)

Keys(encoded) == {e.key : e \in Range(encoded)}

\* encode_params has returned (and send has not yet started another call)
Returned == pc \in {"encoded", "posted", "idle"} /\ calls > 0

(***************************************************************************)
(* Properties                                                              *)
(***************************************************************************)
\* C1 as stated: for every well-typed input, the number of entries of the
\* returned mapping equals the number of atomic leaves of the input.
C1_EntriesEqualLeaves ==
    (Returned /\ WellTyped(params)) => Len(result) = Len(Leaves(params))

\* C1 amended: the number of entries of the returned mapping equals the number
\* of distinct flat keys of the atomic leaves; it equals the number of atomic
\* leaves when no two leaves build the same flat key, as is the case when no
\* mapping key contains a bracket.
C1_EntriesEqualDistinctKeys ==
    (Returned /\ WellTyped(params)) =>
        LET leaves == Leaves(params)
            keyOf == [j \in 1..Len(leaves) |-> ExpectedKey(leaves[j].path)]
        IN /\ Len(result) = Cardinality(Range(keyOf))
           /\ (\A i, j \in 1..Len(leaves) : keyOf[i] = keyOf[j] => i = j)
                 => Len(result) = Len(leaves)
           /\ BracketFree(params) => Len(result) = Len(leaves)

\* a call has returned for an input with a leaf between two empty containers
C1_Witness ==
    /\ Returned
    /\ WellTyped(params)
    /\ BracketFree(params)
    /\ Len(Leaves(params)) >= 1
    /\ Cardinality(EmptyPaths(params)) >= 2
    /\ Len(result) = Len(Leaves(params))

\* C2 as stated: for every input, any two leaves with different paths are
\* stored under different flat keys.
C2_DistinctPathsDistinctKeys ==
    \A i, j \in 1..Len(assigned) :
        assigned[i].names # assigned[j].names => assigned[i].key # assigned[j].key

\* C2 amended: for every input none of whose mapping keys contains a bracket,
\* two leaves with different paths are stored under different flat keys, every
\* leaf is stored exactly once, and the segments of its path are read back
\* from its flat key by splitting at the brackets.
C2_LosslessWhenBracketFree ==
    BracketFree(params) =>
        /\ \A i, j \in 1..Len(assigned) : assigned[i].key = assigned[j].key => i = j
        /\ \A i \in 1..Len(assigned) : Decode(assigned[i].key) = assigned[i].names
        /\ Returned =>
              /\ Len(result) = Len(Leaves(params))
              /\ {Decode(k) : k \in Keys(result)}
                    = {Segments(l.path) : l \in Range(Leaves(params))}

\* a call has returned for a bracket-free input with several leaves, one of
\* them three levels deep
C2_Witness ==
    /\ Returned
    /\ BracketFree(params)
    /\ \E k1, k2 \in Keys(result) : k1 # k2 /\ Len(Decode(k1)) >= 3

\* C3: the flat keys of the returned mapping are exactly the keys s0[s1]...[sn]
\* of the paths of the atomic leaves, a list position being rendered in base 10
\* without leading zeros; {"a": [{"b": [1,2]}, {"b": [3]}]} encodes to exactly
\* {"a[0][b][0]": 1, "a[0][b][1]": 2, "a[1][b][0]": 3}.
C3_FlatKeyFormat ==
    (Returned /\ WellTyped(params)) =>
        /\ Keys(result) = {ExpectedKey(l.path) : l \in Range(Leaves(params))}
        /\ params = ExampleDeep =>
              result = <<Item(<<"a", "[", "0", "]", "[", "b", "]", "[", "0", "]">>, Atom("int", 1)),
                         Item(<<"a", "[", "0", "]", "[", "b", "]", "[", "1", "]">>, Atom("int", 2)),
                         Item(<<"a", "[", "1", "]", "[", "b", "]", "[", "0", "]">>, Atom("int", 3))>>
        /\ params = ExampleShape =>
              result = <<Item(<<"a", "[", "b", "]">>, Atom("int", 1)),
                         Item(<<"a", "[", "c", "]", "[", "0", "]">>, Atom("int", 2)),
                         Item(<<"a", "[", "c", "]", "[", "1", "]">>, Atom("int", 3))>>

\* a call has returned keys with a position of two digits and a key without
\* brackets
C3_Witness ==
    /\ Returned
    /\ WellTyped(params)
    /\ <<"a", "[", "1", "1", "]">> \in Keys(result)
    /\ <<"a", "[", "0", "]">> \in Keys(result)

\* C4: when the input contains a value that is neither mapping, list nor
\* atomic scalar, the call fails; the value is never placed in the output.
C4_UnsupportedKindFails ==
    /\ ~WellTyped(params) => pc \notin {"encoded", "posted"}
    /\ \A e \in Range(result) : e.value.type \in ParamAtomTypes

\* C5: an empty list or dict at any depth contributes no entry and raises no
\* error (a call fails only when the input is nested too deep), and the leaves
\* of its sibling subtrees are all encoded.
C5_EmptyContainersDropped ==
    /\ \A p \in EmptyPaths(params) : \A i \in 1..Len(assigned) :
          ~IsPrefix(Segments(p), assigned[i].names)
    /\ pc = "failed" => Depth(params) > RecursionLimit
    /\ Returned =>
          /\ {a.names : a \in Range(assigned)} = {Segments(l.path) : l \in Range(Leaves(params))}
          /\ \A l \in Range(Leaves(params)) : ExpectedKey(l.path) \in Keys(result)
          /\ params.items = <<>> => result = <<>>

\* a call has returned for an input with an empty container next to a leaf
C5_Witness ==
    /\ Returned
    /\ result # <<>>
    /\ \E p \in EmptyPaths(params) : Len(p) >= 2

\* the flat keys of the leaves of a value, in the order of Leaves
LeafKeys(data) ==
    LET leaves == Leaves(data)
    IN [j \in 1..Len(leaves) |-> ExpectedKey(leaves[j].path)]

\* no two leaves of a value build the same flat key
CollisionFree(data) ==
    LET keys == LeafKeys(data)
    IN \A i, j \in 1..Len(keys) : keys[i] = keys[j] => i = j

\* C6 as stated: every value of the output is the leaf at the corresponding
\* path, unchanged in value and kind, and a top-level entry k -> v with atomic
\* v yields exactly the entry k -> v.
C6_ValuesUnchanged ==
    (Returned /\ WellTyped(params)) =>
        LET leaves == Leaves(params)
            keys == LeafKeys(params)
        IN /\ \A e \in Range(result) : \E i \in 1..Len(leaves) :
                 keys[i] = e.key /\ leaves[i].value = e.value
           /\ \A i \in 1..Len(leaves) :
                 Len(leaves[i].path) = 1 => Item(leaves[i].path[1].key, leaves[i].value) \in Pairs(result)

\* C6 amended: every value of the output is a leaf of the input whose path
\* builds the entry's flat key, unchanged in value and kind, and a top-level
\* entry k -> v with atomic v yields exactly the entry k -> v unless a leaf
\* visited later builds the same flat key k.
C6_ValuesUnchangedUnlessOverwritten ==
    (Returned /\ WellTyped(params)) =>
        LET leaves == Leaves(params)
            keys == LeafKeys(params)
        IN /\ \A e \in Range(result) : \E i \in 1..Len(leaves) :
                 keys[i] = e.key /\ leaves[i].value = e.value
           /\ \A i \in 1..Len(leaves) :
                 (/\ Len(leaves[i].path) = 1
                  /\ \A j \in (i + 1)..Len(leaves) : keys[j] # keys[i])
                    => Item(leaves[i].path[1].key, leaves[i].value) \in Pairs(result)

\* a call has returned a top-level boolean and a nested integer
C6_Witness ==
    /\ Returned
    /\ WellTyped(params)
    /\ \E e1, e2 \in Range(result) :
          /\ e1.value.type = "bool" /\ Len(Decode(e1.key)) = 1
          /\ e2.value.type = "int" /\ Len(Decode(e2.key)) > 1

\* C7 as stated: permuting the sibling keys of any mapping of the input leaves
\* the set of (flat key, value) pairs of the output unchanged.
C7_OrderIndependent ==
    \A i \in 1..Len(outputs) : \A j \in (i + 1)..Len(outputs) :
        (WellTyped(outputs[i].params) /\ outputs[j].params \in Reorderings(outputs[i].params))
            => Pairs(outputs[i].value) = Pairs(outputs[j].value)

\* C7 amended: when no two leaves of the input build the same flat key,
\* permuting the sibling keys of any mapping of the input leaves the set of
\* (flat key, value) pairs of the output unchanged.
C7_OrderIndependentWhenCollisionFree ==
    \A i \in 1..Len(outputs) : \A j \in (i + 1)..Len(outputs) :
        (/\ WellTyped(outputs[i].params)
         /\ CollisionFree(outputs[i].params)
         /\ outputs[j].params \in Reorderings(outputs[i].params))
            => Pairs(outputs[i].value) = Pairs(outputs[j].value)

\* two calls have returned for inputs that differ in the order of their keys,
\* and their outputs list different values in a different order
C7_Witness ==
    /\ Len(outputs) >= 2
    /\ WellTyped(outputs[1].params)
    /\ CollisionFree(outputs[1].params)
    /\ outputs[2].params # outputs[1].params
    /\ outputs[2].value # outputs[1].value
    /\ \E e1, e2 \in Range(outputs[1].value) : e1.value # e2.value

\* C8: while encode_params runs, the input and everything outside the mapping
\* under construction stay as they are, and two calls on the same input return
\* equal outputs.
C8_Pure ==
    [][/\ pc = "encoding" =>
             /\ params' = params
             /\ network' = network
             /\ pc' = "encoding" => outputs' = outputs
       /\ \A i, j \in 1..Len(outputs') :
             outputs'[i].params = outputs'[j].params => outputs'[i].value = outputs'[j].value]_vars

\* two calls on the same input have returned a mapping with several entries
C8_Witness ==
    /\ Len(outputs) >= 2
    /\ outputs[1].params = outputs[2].params
    /\ Len(outputs[1].value) >= 2
    /\ \E d \in Range(outputs[1].params.items) : d.value.kind # "atom"

\* C9: when several leaves build the same flat key, the output holds a single
\* entry for it, whose value is that of the leaf visited last, and no error is
\* raised.
C9_LastWriteWins ==
    /\ Returned =>
          LET leaves == Leaves(params)
              keys == LeafKeys(params)
          IN /\ \A i, j \in 1..Len(result) : result[i].key = result[j].key => i = j
             /\ \A e \in Range(result) :
                   LET same == {i \in 1..Len(keys) : keys[i] = e.key}
                       last == CHOOSE i \in same : \A j \in same : j <= i
                   IN same # {} /\ e.value = leaves[last].value
    /\ (~CollisionFree(params) /\ Depth(params) <= RecursionLimit) => pc # "failed"

\* a call has returned for an input in which two leaves with different values
\* build the same flat key
C9_Witness ==
    /\ Returned
    /\ LET leaves == Leaves(params)
           keys == LeafKeys(params)
       IN \E i, j \in 1..Len(leaves) :
             /\ i < j
             /\ keys[i] = keys[j]
             /\ leaves[i].value # leaves[j].value
             /\ Item(keys[j], leaves[j].value) \in Pairs(result)

\* C10: send issues the POST only after encode_params has returned the whole
\* flat mapping: no request of a call exists while the call is encoding or
\* after its encoding failed, and every request carries the complete encoding.
C10_EncodedBeforePost ==
    /\ pc \in {"encoding", "failed"} => \A r \in Range(network) : r.call # calls
    /\ \A r \in Range(network) : \E o \in Range(outputs) :
          /\ o.call = r.call
          /\ o.value = r.params
          /\ Keys(r.params) = Range(LeafKeys(o.params))

\* the request of a call carries a mapping with several entries
C10_Witness ==
    /\ pc = "posted"
    /\ network # <<>>
    /\ network[Len(network)].call = calls
    /\ Len(network[Len(network)].params) >= 2

(***************************************************************************)
(* Invocations of encode_params side by side                               *)
(*                                                                         *)
(* Each invocation owns its generators, the pair in flight and the dict    *)
(* under construction: a run is the record of these.  The steps of a run   *)
(* are those of Descend, Overflow, Yield, Assign and Exhaust.              *)
(***************************************************************************)
RunIds == {1, 2}

\* an invocation that has not been entered yet
Pending(data) ==
    [data |-> data, pc |-> "idle", stack |-> <<>>, yielded |-> <<>>, result |-> <<>>]

\* encode_params(data) is entered: the comprehension creates the outermost
\* generator
Entered(run) == [run EXCEPT !.pc = "encoding", !.stack = <<Frame(run.data)>>]

\* the next step of a run that is encoding
RunStep(run) ==
    LET n == Len(run.stack)
        top == run.stack[n]
        popped == [run EXCEPT !.stack = SubSeq(run.stack, 1, n - 1),
                              !.pc = IF n = 1 THEN "encoded" ELSE "encoding"]
    IN IF run.yielded # <<>>
       THEN [run EXCEPT !.result = DictSet(run.result, FlatKey(run.yielded[1].names),
                                           run.yielded[1].elem),
                        !.yielded = <<>>]
       ELSE IF IsContainer(top.data)
       THEN IF top.i = Len(top.data.items) THEN popped
            ELSE IF n >= RecursionLimit
            THEN [run EXCEPT !.pc = "failed", !.stack = <<>>, !.result = <<>>]
            ELSE LET elem == IF top.data.kind = "dict"
                             THEN top.data.items[top.i + 1].value
                             ELSE top.data.items[top.i + 1]
                 IN [run EXCEPT !.stack = Append([run.stack EXCEPT ![n].i = @ + 1], Frame(elem))]
       ELSE IF top.i = 1 THEN popped
            ELSE [run EXCEPT !.stack = [run.stack EXCEPT ![n].i = 1],
                             !.yielded = <<PassUp(run.stack, n - 1, LeafYield(top.data))>>]

\* variant: the invocations store into one dict
Resumed_SharedResult(rs, id) ==
    LET next == RunStep(rs[id])
    IN [j \in DOMAIN rs |->
           IF j = id THEN next
           ELSE IF rs[j].pc = "encoding" THEN [rs[j] EXCEPT !.result = next.result]
           ELSE rs[j]]

\* the runs after run id has taken a step: the step touches nothing but the
\* generators, the pair and the dict of run id
Resumed(rs, id) == [rs EXCEPT ![id] = RunStep(rs[id])]

\* the inputs of the first invocation
FirstInputs ==
    {t \in UNION {TreesOfSize(n) : n \in 1..(MaxNodes - 1)} : t.kind = "dict"}
    \cup {ExampleNested}

\* {"a[0]": 1, "a": [True]}
ExampleCollision ==
    Dict(<<Item(<<"a", "[", "0", "]">>, Atom("int", 1)),
           Item(<<"a">>, List(<<Atom("bool", 1)>>))>>)

\* the inputs of the second invocation
SecondInputs == {ExampleShape, ExampleCollision, ExampleEmpty}

ReentrantInit ==
    /\ \E first \in FirstInputs, second \in SecondInputs :
          runs = <<Pending(first), Pending(second)>>
    /\ params = Dict(<<>>)
    /\ pc = "idle"
    /\ stack = <<>>
    /\ yielded = <<>>
    /\ result = <<>>
    /\ assigned = <<>>
    /\ visited = <<>>
    /\ network = <<>>
    /\ outputs = <<>>
    /\ calls = 0
    /\ ClientsIdle

\* a call site calls encode_params
Enter ==
    \E id \in RunIds :
        /\ runs[id].pc = "idle"
        /\ runs' = [runs EXCEPT ![id] = Entered(runs[id])]
        /\ UNCHANGED <<encoder, clients>>

\* one of the invocations takes its next step
Resume ==
    \E id \in RunIds :
        /\ runs[id].pc = "encoding"
        /\ runs' = Resumed(runs, id)
        /\ UNCHANGED <<encoder, clients>>

ReentrantNext == Enter \/ Resume

ReentrantSpec == ReentrantInit /\ [][ReentrantNext]_vars

RECURSIVE RunAlone(_)
\* the run as it ends when nothing else runs between its steps
RunAlone(run) ==
    IF run.pc = "idle" THEN RunAlone(Entered(run))
    ELSE IF run.pc = "encoding" THEN RunAlone(RunStep(run))
    ELSE run

\* C11: when two invocations of encode_params on independent inputs are
\* interleaved step by step, each ends as it ends when run alone: with the
\* same output, or with the same failure.
C11_Reentrant ==
    \A id \in RunIds :
        runs # <<>> /\ runs[id].pc \in {"encoded", "failed"} =>
            LET alone == RunAlone(Pending(runs[id].data))
            IN runs[id].pc = alone.pc /\ runs[id].result = alone.result

\* the first invocation has returned a mapping with several entries while the
\* second is in the middle of its traversal, with entries of its own
C11_Witness ==
    /\ runs # <<>>
    /\ runs[1].pc = "encoded"
    /\ Len(runs[1].result) >= 2
    /\ runs[2].pc = "encoding"
    /\ Len(runs[2].stack) >= 2
    /\ runs[2].result # <<>>
    /\ runs[2].result # runs[1].result

(***************************************************************************)
(* Termination of the traversal                                            *)
(***************************************************************************)
\* one call of send on an input
LiveInit ==
    /\ params \in Inputs
    /\ pc = "idle"
    /\ stack = <<>>
    /\ yielded = <<>>
    /\ result = <<>>
    /\ assigned = <<>>
    /\ visited = <<>>
    /\ network = <<>>
    /\ outputs = <<>>
    /\ calls = MaxCalls - 1
    /\ runs = <<>>
    /\ ClientsIdle

\* the steps up to the return of encode_params
LiveNext == Send \/ Descend \/ Overflow \/ Yield \/ Assign \/ Exhaust

\* the interpreter takes the next step of the call whenever there is one
LiveSpec == LiveInit /\ [][LiveNext]_vars /\ WF_vars(LiveNext)

RECURSIVE NodePositions(_)
\* the places of the nodes of a value: the numbers of the elements taken on
\* the way from the root
NodePositions(data) ==
    IF data.kind = "atom" THEN {<<>>}
    ELSE {<<>>} \cup
         UNION {{<<j>> \o p :
                    p \in NodePositions(IF data.kind = "dict" THEN data.items[j].value
                                        ELSE data.items[j])} :
                j \in 1..Len(data.items)}

\* every node has been visited once and every leaf yielded once, in order
TraversedOnce ==
    /\ \A i, j \in 1..Len(visited) : visited[i] = visited[j] => i = j
    /\ Range(visited) = NodePositions(params)
    /\ [j \in 1..Len(assigned) |-> assigned[j].names]
          = [j \in 1..Len(Leaves(params)) |-> Segments(Leaves(params)[j].path)]

\* C12 as stated: for every input the traversal ends having visited each node
\* once and yielded each leaf once.
C12_TraversesEveryInput ==
    pc \in {"encoded", "failed"} => TraversedOnce

\* C12 amended: for every input encode_params terminates, without blocking or
\* looping: no node is visited twice, and the call either returns after it has
\* visited each node once and yielded each leaf once, or is ended by
\* RecursionError when the input is nested deeper than the recursion limit.
C12_Terminates ==
    /\ [](\A i, j \in 1..Len(visited) : visited[i] = visited[j] => i = j)
    /\ [](pc = "encoded" => TraversedOnce)
    /\ [](pc = "failed" => Depth(params) > RecursionLimit)
    /\ (pc = "encoding") ~> (pc \in {"encoded", "failed"})

\* a call has returned after a traversal of several levels
C12_Witness ==
    /\ pc = "encoded"
    /\ Len(visited) >= 4
    /\ Len(assigned) >= 2
    /\ \E j \in 1..Len(visited) : Len(visited[j]) >= 3

(***************************************************************************)
(* upload_files                                                            *)
(***************************************************************************)
\* largest number of paths of one call of upload_files
MaxFiles == 3
\* largest number of entries of one reply of upload.php
MaxEntries == 2

\* the state that upload_files does not touch
besidesUpload == <<encoder, runs, grading, listing, finalizing>>

FileNames == {"a.pdf", "b.pdf"}

\* the paths of a call: any files, in any order, a file possibly twice
PathSeqs == UNION {[1..n -> FileNames] : n \in 0..MaxFiles}

\* the draft area ids that upload.php hands out: positive numbers
ItemIds == {1, 2}

\* bool(x) of an int | None
Truthy(x) == x.type # "none" /\ x.val # 0

\* {"token": self.token} | ({"itemid": itemid} if itemid else {})
UploadParams(id) ==
    <<Item("token", Atom("str", 0))>>
        \o (IF Truthy(id) THEN <<Item("itemid", id)>> ELSE <<>>)

\* requests.post(url, files={path.name: file_data}, params=...)
UploadRequest(name, id) == [files |-> name, params |-> UploadParams(id)]

HasItemId(request) == \E j \in 1..Len(request.params) : request.params[j].key = "itemid"

ItemIdOf(request) ==
    (CHOOSE item \in Range(request.params) : item.key = "itemid").value.val

\* what upload.php answers: a list with one entry per stored file, all in
\* the draft area of the request if it names one and in a new one otherwise;
\* an empty list; or an error object
UploadReplies(request) ==
    {List(entries) : entries \in
        UNION {[1..n -> [filename : {request.files},
                         itemid : IF HasItemId(request) THEN {ItemIdOf(request)} ELSE ItemIds]]
               : n \in 0..MaxEntries}}
    \cup {Dict(<<Item("error", Atom("str", 0))>>)}

\* res[0]["itemid"] can be evaluated
HasFirstEntry(res) == res.kind = "list" /\ res.items # <<>>

\* variant: the itemid of the last entry of the response
NextItemId_LastEntry(id, res) ==
    IF Truthy(id) THEN id ELSE Atom("int", res.items[Len(res.items)].itemid)

\* itemid or res[0]["itemid"]
NextItemId(id, res) ==
    IF Truthy(id) THEN id ELSE Atom("int", res.items[1].itemid)

\* response.extend(res): the entries of a list, the keys of a dict
Extended(resp, res) ==
    resp \o (IF res.kind = "list" THEN res.items
             ELSE [j \in 1..Len(res.items) |-> res.items[j].key])

UploadInit ==
    /\ params = Dict(<<>>)
    /\ pc = "idle"
    /\ stack = <<>>
    /\ yielded = <<>>
    /\ result = <<>>
    /\ assigned = <<>>
    /\ visited = <<>>
    /\ network = <<>>
    /\ outputs = <<>>
    /\ calls = 0
    /\ runs = <<>>
    /\ ClientsIdle

\* upload_files(paths): itemid = None, response = []
UploadFiles ==
    /\ upc = "idle"
    /\ paths' \in PathSeqs
    /\ upc' = "uploading"
    /\ itemid' = Atom("none", 0)
    /\ response' = <<>>
    /\ uploads' = <<>>
    /\ replies' = <<>>
    /\ UNCHANGED besidesUpload

\* one turn of the loop: the file is posted and the reply has a first entry
UploadFile ==
    /\ upc = "uploading"
    /\ Len(uploads) < Len(paths)
    /\ LET request == UploadRequest(paths[Len(uploads) + 1], itemid)
       IN /\ uploads' = Append(uploads, request)
          /\ \E res \in UploadReplies(request) :
                /\ HasFirstEntry(res)
                /\ replies' = Append(replies, res)
                /\ response' = Extended(response, res)
                /\ itemid' = NextItemId(itemid, res)
    /\ UNCHANGED <<paths, upc, besidesUpload>>

\* one turn of the loop: the file is posted and res[0] raises, an IndexError
\* on an empty list and a KeyError on an error object
UploadRaise ==
    /\ upc = "uploading"
    /\ Len(uploads) < Len(paths)
    /\ LET request == UploadRequest(paths[Len(uploads) + 1], itemid)
       IN /\ uploads' = Append(uploads, request)
          /\ \E res \in UploadReplies(request) :
                /\ ~HasFirstEntry(res)
                /\ replies' = Append(replies, res)
                /\ response' = Extended(response, res)
    /\ upc' = "raised"
    /\ UNCHANGED <<paths, itemid, besidesUpload>>

\* return response
UploadReturn ==
    /\ upc = "uploading"
    /\ Len(uploads) = Len(paths)
    /\ upc' = "returned"
    /\ UNCHANGED <<paths, itemid, response, uploads, replies, besidesUpload>>

UploadNext == UploadFiles \/ UploadFile \/ UploadRaise \/ UploadReturn

UploadSpec == UploadInit /\ [][UploadNext]_vars

\* the entries of a sequence of replies, one reply after the other
RECURSIVE Concatenated(_)
Concatenated(rs) ==
    IF rs = <<>> THEN <<>> ELSE rs[1].items \o Concatenated(Tail(rs))

MaxUsers == 2

\* the state that upload_graded_assignment, upload_files and send do not touch
besidesGrading == <<runs, listing, finalizing>>

AssignmentIds == {1, 2}

UserIds == {1, 2}

\* the users of a call: any users, in any order, a user possibly twice
UserSeqs == UNION {[1..n -> UserIds] : n \in 0..MaxUsers}

\* the points of a call: 0.0 and 5.0
PointValues == {Atom("float", 0), Atom("float", 5)}

\* variant: the itemid of the last entry that upload_files returns
FileId_LastEntry(resp) == Atom("int", resp[Len(resp)].itemid)

\* self.upload_files([file])[0]["itemid"]
FileId(resp) == Atom("int", resp[1].itemid)

\* the entry of grades for a user
Grade(user, grade, file_id) ==
    Dict(<<Item(<<"u", "s", "e", "r", "i", "d">>, Atom("int", user)),
           Item(<<"g", "r", "a", "d", "e">>, grade),
           Item(<<"a", "t", "t", "e", "m", "p", "t", "n", "u", "m", "b", "e", "r">>,
                Atom("int", -1)),
           Item(<<"a", "d", "d", "a", "t", "t", "e", "m", "p", "t">>, Atom("int", 0)),
           Item(<<"w", "o", "r", "k", "f", "l", "o", "w", "s", "t", "a", "t", "e">>,
                Atom("str", <<"g", "r", "a", "d", "e", "d">>)),
           Item(<<"p", "l", "u", "g", "i", "n", "d", "a", "t", "a">>,
                Dict(<<Item(<<"f", "i", "l", "e", "s", "_", "f", "i", "l", "e",
                              "m", "a", "n", "a", "g", "e", "r">>, file_id)>>))>>)

\* [{...} for user in users]
Grades(us, grade, file_id) == List([j \in 1..Len(us) |-> Grade(us[j], grade, file_id)])

\* the keyword parameters of send("mod_assign_save_grades", ...)
SaveGradesParams(id, us, grade, file_id) ==
    Dict(<<Item(<<"a", "s", "s", "i", "g", "n", "m", "e", "n", "t", "i", "d">>,
                Atom("int", id)),
           Item(<<"g", "r", "a", "d", "e", "s">>, Grades(us, grade, file_id)),
           Item(<<"a", "p", "p", "l", "y", "t", "o", "a", "l", "l">>, Atom("int", 0))>>)

\* what the web service answers to mod_assign_save_grades: null, an empty
\* object or list, an exception object, or a list of warnings
SaveGradesReplies ==
    {Atom("none", 0), Dict(<<>>), List(<<>>),
     Dict(<<Item("exception", Atom("str", 0))>>),
     List(<<Dict(<<Item("warningcode", Atom("str", 0))>>)>>)}

\* bool(x) of a decoded reply
TruthyValue(x) == IF x.kind = "atom" THEN Truthy(x) ELSE x.items # <<>>

GradeInit == UploadInit

\* upload_graded_assignment(assignment_id, users, file, points) calls
\* upload_files([file])
UploadGradedAssignment ==
    /\ gpc = "idle"
    /\ upc = "idle"
    /\ assignment_id' \in AssignmentIds
    /\ users' \in UserSeqs
    /\ file' \in FileNames
    /\ points' \in PointValues
    /\ gpc' = "uploading"
    /\ paths' = <<file'>>
    /\ upc' = "uploading"
    /\ itemid' = Atom("none", 0)
    /\ response' = <<>>
    /\ uploads' = <<>>
    /\ replies' = <<>>
    /\ UNCHANGED <<ret, encoder, besidesGrading>>

\* upload_files raises: the exception leaves upload_graded_assignment
UploadFailed ==
    /\ gpc = "uploading"
    /\ upc = "raised"
    /\ gpc' = "failed"
    /\ UNCHANGED <<assignment_id, users, file, points, ret, upload, encoder, besidesGrading>>

\* upload_files has returned: grades is built and send is called, which
\* starts encode_params on its keyword parameters
SaveGrades ==
    /\ gpc = "uploading"
    /\ upc = "returned"
    /\ gpc' = "sending"
    /\ params' = SaveGradesParams(assignment_id, users, points, FileId(response))
    /\ stack' = <<Frame(params')>>
    /\ pc' = "encoding"
    /\ calls' = calls + 1
    /\ yielded' = <<>>
    /\ result' = <<>>
    /\ assigned' = <<>>
    /\ visited' = <<<<>>>>
    /\ UNCHANGED <<network, outputs, assignment_id, users, file, points, ret, upload, besidesGrading>>

\* ret = self.send(...): send returns the decoded reply
SaveGradesReply ==
    /\ gpc = "sending"
    /\ pc = "posted"
    /\ pc' = "idle"
    /\ ret' \in SaveGradesReplies
    /\ gpc' = "replied"
    /\ UNCHANGED <<params, stack, yielded, result, assigned, visited, network, outputs, calls,
                   assignment_id, users, file, points, upload, besidesGrading>>

\* if ret: raise RuntimeError(...)
GradeRaise ==
    /\ gpc = "replied"
    /\ TruthyValue(ret)
    /\ gpc' = "raised"
    /\ UNCHANGED <<assignment_id, users, file, points, ret, upload, encoder, besidesGrading>>

\* the end of upload_graded_assignment
GradeReturn ==
    /\ gpc = "replied"
    /\ ~TruthyValue(ret)
    /\ gpc' = "returned"
    /\ UNCHANGED <<assignment_id, users, file, points, ret, upload, encoder, besidesGrading>>

GradeNext ==
    \/ UploadGradedAssignment \/ UploadFile \/ UploadRaise \/ UploadReturn \/ UploadFailed
    \/ SaveGrades \/ Descend \/ Yield \/ Assign \/ Exhaust \/ Post
    \/ SaveGradesReply \/ GradeRaise \/ GradeReturn

GradeSpec == GradeInit /\ [][GradeNext]_vars

\* the flat key grades[i][name]...[name] of a field of the entry of user i
GradeKey(i, names) ==
    ExpectedKey(<<KeyStep(<<"g", "r", "a", "d", "e", "s">>), IndexStep(i)>>
                \o [j \in 1..Len(names) |-> KeyStep(names[j])])

\* the parameters of the request that send has posted
Sent == network[1].params

\* the positions of the entries of grades that a request carries
GradeIndices(request) ==
    {Decode(k)[2] : k \in {e \in Keys(request) :
                              Decode(e)[1] = <<"g", "r", "a", "d", "e", "s">>}}

\* null, {} or []
EmptyReply(x) == x \in {Atom("none", 0), Dict(<<>>), List(<<>>)}

\* C16: upload_graded_assignment posts the mod_assign_save_grades request
\* only after upload_files has returned; the request has one grade entry per
\* user of the list, each with the user's id, the points of the call and the
\* itemid of the uploaded file; the call raises RuntimeError when the reply
\* to the request is non-empty and returns when it is empty, and does neither
\* before the reply.
C16_GradesSaved ==
    /\ Len(network) <= 1
    /\ network # <<>> =>
          /\ upc = "returned"
          /\ Len(uploads) = 1
          /\ uploads[1].files = file
          /\ Len(Sent) = Cardinality(Keys(Sent))
          /\ GradeIndices(Sent) = {Decimal(i) : i \in 0..(Len(users) - 1)}
          /\ \A i \in 0..(Len(users) - 1) :
                {Item(GradeKey(i, <<<<"u", "s", "e", "r", "i", "d">>>>),
                      Atom("int", users[i + 1])),
                 Item(GradeKey(i, <<<<"g", "r", "a", "d", "e">>>>), points),
                 Item(GradeKey(i, <<<<"p", "l", "u", "g", "i", "n", "d", "a", "t", "a">>,
                                    <<"f", "i", "l", "e", "s", "_", "f", "i", "l", "e",
                                      "m", "a", "n", "a", "g", "e", "r">>>>),
                      Atom("int", replies[1].items[1].itemid))}
                    \subseteq Pairs(Sent)
    /\ gpc = "raised" => network # <<>> /\ ~EmptyReply(ret)
    /\ gpc = "returned" => network # <<>> /\ EmptyReply(ret)
    /\ gpc = "replied" => network # <<>>
    /\ gpc \in {"idle", "uploading", "failed"} => network = <<>>

\* the grades of two users are sent after an upload whose reply has two
\* entries with different itemids, and the reply to them is an exception
C16_Witness ==
    /\ gpc = "raised"
    /\ Len(users) = MaxUsers
    /\ users[1] # users[2]
    /\ Len(response) = 2
    /\ response[1].itemid # response[2].itemid
    /\ ret.kind = "dict"

(***************************************************************************)
(* get_submission_files                                                    *)
(***************************************************************************)
\* largest number of submissions of the assignment
MaxSubmissions == 2

\* the state that get_submission_files does not touch
besidesListing == <<encoder, runs, upload, grading, finalizing>>

\* the selections of tutorials; an empty selection joins to the empty
\* alternative
TutorialLists == {<<>>, <<<<"1">>>>, <<<<"1">>, <<"2">>>>}

\* the groups of a course, as core_group_get_groups_for_selector lists them
CourseGroups ==
    {<<[id |-> <<"1">>, name |-> <<"T", "u", "t", "o", "r", "i", "u", "m", " ", "1">>],
       [id |-> <<"2">>, name |-> <<"t", "u", "t", "o", "r", "i", "a", "l", " ", "1", "0">>],
       [id |-> <<"3">>, name |-> <<"G", "r", "u", "p", "p", "e", " ", "1">>]>>,
     <<[id |-> <<"1">>, name |-> <<"T", "U", "T", " ", "2">>],
       [id |-> <<"0", "2">>, name |-> <<"T", "U", "T", " ", "2">>],
       [id |-> <<"3">>, name |-> <<"M", "a", "t", "h", "e", " ", "T", "u", "t", " ", "1">>]>>}

\* the letters of the pattern in lower case
lower(c) ==
    CASE c = "T" -> "t"
      [] c = "U" -> "u"
      [] c = "O" -> "o"
      [] c = "R" -> "r"
      [] c = "I" -> "i"
      [] c = "A" -> "a"
      [] c = "L" -> "l"
      [] c = "M" -> "m"
      [] OTHER -> c

Lowered(name) == [j \in 1..Len(name) |-> lower(name[j])]

\* the texts that tut(orium|orial)? (t1|t2|...) accepts
Pattern(ts) ==
    {<<"t", "u", "t">> \o rest \o <<" ">> \o Lowered(t) :
        rest \in {<<>>, <<"o", "r", "i", "u", "m">>, <<"o", "r", "i", "a", "l">>},
        t \in IF ts = <<>> THEN {<<>>} ELSE Range(ts)}

\* pattern.match(name) with re.IGNORECASE: the pattern accepts a beginning
\* of the name
Match(ts, name) == \E text \in Pattern(ts) : IsPrefix(text, Lowered(name))

\* int(s)
int(s) == NumberOf(s)

RECURSIVE Parsed(_, _)
\* get_groups: parsed[int(group["id"])] = group["name"] for the groups whose
\* name matches, in the order of the list
Parsed(ts, data) ==
    IF data = <<>> THEN <<>>
    ELSE LET before == Parsed(ts, SubSeq(data, 1, Len(data) - 1))
             group == data[Len(data)]
         IN IF Match(ts, group.name) THEN DictSet(before, int(group.id), group.name)
            ELSE before

\* k in d
HasKey(d, k) == \E j \in 1..Len(d) : d[j].key = k

\* d[k]
Lookup(d, k) == (CHOOSE item \in Range(d) : item.key = k).value

GroupIds == {1, 2, 3}

\* the plugins of a submission: without a "File submissions" plugin, with one
\* that has no file areas, with one that has no "submission_files" area, and
\* with one or two submitted files
PluginLists ==
    {<<[name |-> "Submission comments"]>>,
     <<[name |-> "File submissions"]>>,
     <<[name |-> "File submissions",
        fileareas |-> <<[area |-> "intro", files |-> <<[fileurl |-> "u3"]>>]>>]>>,
     <<[name |-> "File submissions",
        fileareas |-> <<[area |-> "submission_files", files |-> <<[fileurl |-> "u1"]>>]>>]>>,
     <<[name |-> "Submission comments"],
       [name |-> "File submissions",
        fileareas |-> <<[area |-> "intro", files |-> <<>>],
                        [area |-> "submission_files",
                         files |-> <<[fileurl |-> "u1"], [fileurl |-> "u2"]>>]>>]>>}

Submissions == [groupid : GroupIds, status : {"submitted", "new"}, plugins : PluginLists]

SubmissionLists == UNION {[1..n -> Submissions] : n \in 0..MaxSubmissions}

\* the position of the first element of a list that has a value in a field
First(list, field, value) ==
    LET js == {j \in 1..Len(list) : list[j][field] = value}
    IN IF js = {} THEN 0 ELSE CHOOSE j \in js : \A m \in js : j <= m

\* the body of the try of _get_submission_files: next(...) raises
\* StopIteration when nothing is found, [...] raises KeyError on a missing key
SubmissionFiles(submission) ==
    LET p == First(submission.plugins, "name", "File submissions")
    IN IF p = 0 THEN [raised |-> "StopIteration"]
       ELSE IF "fileareas" \notin DOMAIN submission.plugins[p] THEN [raised |-> "KeyError"]
       ELSE LET file_areas == submission.plugins[p].fileareas
                a == First(file_areas, "area", "submission_files")
            IN IF a = 0 THEN [raised |-> "StopIteration"]
               ELSE [raised |-> "", value |-> file_areas[a].files]

\* except StopIteration, KeyError: return []
_get_submission_files(submission) ==
    LET tried == SubmissionFiles(submission)
    IN IF tried.raised = "" THEN tried.value ELSE <<>>

\* [file["fileurl"] for file in submission_files]
FileUrls(submission_files) ==
    [j \in 1..Len(submission_files) |-> submission_files[j].fileurl]

\* submission["groupid"] in groups and submission["status"] == "submitted"
Qualifies(gs, submission) ==
    HasKey(gs, submission.groupid) /\ submission.status = "submitted"

\* variant: a submission without submitted files is passed over
Listed_Skipping(fs, gs, submission) ==
    IF Qualifies(gs, submission) /\ SubmissionFiles(submission).raised = ""
    THEN DictSet(fs, Lookup(gs, submission.groupid),
                 FileUrls(_get_submission_files(submission)))
    ELSE fs

\* files after the turn of the loop for a submission
Listed(fs, gs, submission) ==
    IF Qualifies(gs, submission)
    THEN DictSet(fs, Lookup(gs, submission.groupid),
                 FileUrls(_get_submission_files(submission)))
    ELSE fs

ListingInit == UploadInit

\* get_submission_files(assignment_name, tutorials):
\* groups = self.get_groups(tutorials)
GetGroups ==
    /\ spc = "idle"
    /\ tutorials' \in TutorialLists
    /\ \E data \in CourseGroups : groups' = Parsed(tutorials', data)
    /\ spc' = "assignment"
    /\ UNCHANGED <<submissions, files, seen, besidesListing>>

\* self.get_assignment(assignment_name)["id"]: an assignment has the name
GetAssignment ==
    /\ spc = "assignment"
    /\ spc' = "submissions"
    /\ UNCHANGED <<tutorials, groups, submissions, files, seen, besidesListing>>

\* self.get_assignment(assignment_name): no assignment has the name, and
\* ValueError leaves get_submission_files
GetAssignmentRaise ==
    /\ spc = "assignment"
    /\ spc' = "raised"
    /\ UNCHANGED <<tutorials, groups, submissions, files, seen, besidesListing>>

\* submissions = self.get_assignment_submissions(assignment_id); files = {}
GetAssignmentSubmissions ==
    /\ spc = "submissions"
    /\ submissions' \in SubmissionLists
    /\ files' = <<>>
    /\ seen' = 0
    /\ spc' = "listing"
    /\ UNCHANGED <<tutorials, groups, besidesListing>>

\* one turn of the loop over the submissions
ListSubmission ==
    /\ spc = "listing"
    /\ seen < Len(submissions)
    /\ files' = Listed(files, groups, submissions[seen + 1])
    /\ seen' = seen + 1
    /\ UNCHANGED <<spc, tutorials, groups, submissions, besidesListing>>

\* return files
ListReturn ==
    /\ spc = "listing"
    /\ seen = Len(submissions)
    /\ spc' = "returned"
    /\ UNCHANGED <<tutorials, groups, submissions, files, seen, besidesListing>>

ListingNext ==
    \/ GetGroups \/ GetAssignment \/ GetAssignmentRaise \/ GetAssignmentSubmissions
    \/ ListSubmission \/ ListReturn

ListingSpec == ListingInit /\ [][ListingNext]_vars

\* the submission is of a group that get_groups selected and is submitted
Selected(j) ==
    /\ submissions[j].status = "submitted"
    /\ \E g \in Range(groups) : g.key = submissions[j].groupid

\* the name of the group of a submission
GroupName(j) == (CHOOSE g \in Range(groups) : g.key = submissions[j].groupid).value

\* the submission has a "File submissions" plugin with a "submission_files"
\* area
WithFiles(j) ==
    \E p \in Range(submissions[j].plugins) :
        /\ p.name = "File submissions"
        /\ "fileareas" \in DOMAIN p
        /\ \E a \in Range(p.fileareas) : a.area = "submission_files"

\* the urls of the files of the "submission_files" area of a submission
Urls(j) ==
    LET p == CHOOSE q \in Range(submissions[j].plugins) : q.name = "File submissions"
        a == CHOOSE b \in Range(p.fileareas) : b.area = "submission_files"
    IN [m \in 1..Len(a.files) |-> a.files[m].fileurl]

\* the last of the first n submissions that is selected and of a group of
\* this name
LastSelected(n, name) ==
    CHOOSE j \in 1..n :
        /\ Selected(j) /\ GroupName(j) = name
        /\ \A m \in (j + 1)..n : ~(Selected(m) /\ GroupName(m) = name)

\* C15: the mapping that get_submission_files builds and returns has an entry
\* for a group name exactly when one of the submissions is of a group that
\* get_groups selected, with that name, and has status "submitted"; the entry
\* holds the file urls of the last such submission, and the empty list when
\* that submission has no "File submissions" plugin or no "submission_files"
\* area; the other submissions add and change nothing, and the loop does not
\* raise.
C15_SubmittedGroupsListed ==
    spc \in {"listing", "returned"} =>
        /\ spc = "returned" => seen = Len(submissions)
        /\ Len(files) = Cardinality(Keys(files))
        /\ Keys(files) = {GroupName(j) : j \in {m \in 1..seen : Selected(m)}}
        /\ \A e \in Range(files) :
              LET j == LastSelected(seen, e.key)
              IN e.value = IF WithFiles(j) THEN Urls(j) ELSE <<>>

\* a mapping is returned in which a group has the empty list: its submission
\* has no "submission_files" area, and a later submission of the group, with
\* files but not submitted, was passed over
C15_Witness ==
    /\ spc = "returned"
    /\ Len(groups) >= 2
    /\ Len(submissions) = 2
    /\ Selected(1) /\ ~WithFiles(1)
    /\ submissions[2].groupid = submissions[1].groupid
    /\ submissions[2].status # "submitted"
    /\ submissions[2].plugins # submissions[1].plugins
    /\ files = <<Item(GroupName(1), <<>>)>>

(***************************************************************************)
(* finalize                                                                *)
(*                                                                         *)
(* Points are floats with one decimal place: Atom("float", n) is n tenths, *)
(* and Atom("none", 0) is None.  The text of a form field is a sequence of *)
(* characters.                                                             *)
(***************************************************************************)
\* largest number of entries of the data file
MaxData == 2

\* the state that finalize does not touch
besidesFinalize == <<encoder, runs, upload, grading, listing>>

\* str(x) of a float x
FloatStr(n) == Decimal(n \div 10) \o <<".">> \o <<Digits[(n % 10) + 1]>>

\* str(points) of a float | None
StrOf(x) == IF x.type = "none" THEN <<"N", "o", "n", "e">> ELSE FloatStr(x.val)

IsDigits(text) == \A j \in 1..Len(text) : text[j] \in Range(Digits)

\* float(text) of digits with at most one decimal place, and ValueError for
\* a text that is not a number
float(text) ==
    LET dot == FirstIndex(text, ".")
        whole == IF dot = 0 THEN text ELSE SubSeq(text, 1, dot - 1)
        part == IF dot = 0 THEN <<>> ELSE SubSeq(text, dot + 1, Len(text))
    IN IF IsDigits(whole) /\ IsDigits(part) /\ Len(whole) + Len(part) > 0 /\ Len(part) <= 1
       THEN [raised |-> "", value |-> Atom("float", 10 * NumberOf(whole) + NumberOf(part))]
       ELSE [raised |-> "ValueError", value |-> Atom("none", 0)]

\* data.replace(",", ".")
Replaced(text) == [j \in 1..Len(text) |-> IF text[j] = "," THEN "." ELSE text[j]]

\* get_points: data is the text of "moodleGradeField", None without the field
get_points(field) ==
    IF ~field.present \/ field.text = <<>> THEN Atom("none", 0)
    ELSE IF float(field.text).raised = "" THEN float(field.text).value
    ELSE IF float(Replaced(field.text)).raised = "" THEN float(Replaced(field.text)).value
    ELSE Atom("none", 0)

\* set_points(pdf_path, points): the field of the PDF holds the points
set_points(fields, location, x) ==
    [fields EXCEPT ![location] = [present |-> TRUE, text |-> StrOf(x)]]

\* the points of an entry of the data file: None, 0.0 and 3.5
DataPoints == {Atom("none", 0), Atom("float", 0), Atom("float", 35)}

\* the grade field of a PDF: missing, empty, "0", "2", "3.5", "3,5" and "x"
FormFields ==
    {[present |-> FALSE, text |-> <<>>]}
    \cup [present : {TRUE}, text : {<<>>, <<"0">>, <<"2">>, <<"3", ".", "5">>, <<"3", ",", "5">>, <<"x">>}]

PdfLocations == <<"a.pdf", "b.pdf", "c.pdf">>

FeedbackLocations == <<"a/feedback.pdf", "b/feedback.pdf", "c/feedback.pdf">>

\* the entry of the data file for the j-th group
GroupInfo(j, x) ==
    [points |-> x, pdf_location |-> PdfLocations[j],
     feedback_location |-> FeedbackLocations[j]]

\* info.points is not None and info.points != pdf_points
Differ(x, pdf_points) == x # Atom("none", 0) /\ x # pdf_points

\* choices=[str(info.points), str(pdf_points)]
Choices(x, pdf_points) == {StrOf(x), StrOf(pdf_points)}

\* variant: the PDF is left as it is
NeedsWrite_Never(pdf_points, x) == FALSE

\* pdf_points != info.points
NeedsWrite(pdf_points, x) == pdf_points # x

\* a data file, the PDFs of its entries, and possibly an output file
FinalizeInit ==
    /\ params = Dict(<<>>)
    /\ pc = "idle"
    /\ stack = <<>>
    /\ yielded = <<>>
    /\ result = <<>>
    /\ assigned = <<>>
    /\ visited = <<>>
    /\ network = <<>>
    /\ outputs = <<>>
    /\ calls = 0
    /\ runs = <<>>
    /\ UploadIdle /\ GradingIdle /\ ListingIdle
    /\ fpc = "idle"
    /\ \E n \in 0..MaxData :
          /\ \E xs \in [1..n -> DataPoints] : saved = [j \in 1..n |-> GroupInfo(j, xs[j])]
          /\ pdf_fields \in [{PdfLocations[j] : j \in 1..n} -> FormFields]
    /\ output_exists \in BOOLEAN
    /\ student_data = <<>>
    /\ feedback_zip = <<>>
    /\ finalized = 0
    /\ answers = <<>>

\* data = StudentData.model_validate_json(data_file.read_text())
Finalize ==
    /\ fpc = "idle"
    /\ student_data' = saved
    /\ fpc' = IF output_exists THEN "confirm" ELSE "zip"
    /\ UNCHANGED <<saved, output_exists, pdf_fields, feedback_zip, finalized, answers,
                   besidesFinalize>>

\* Confirm.ask is answered with no: raise Abort
Abort ==
    /\ fpc = "confirm"
    /\ fpc' = "aborted"
    /\ UNCHANGED <<saved, output_exists, pdf_fields, student_data, feedback_zip, finalized,
                   answers, besidesFinalize>>

\* Confirm.ask is answered with yes: rmtree(output)
Replace ==
    /\ fpc = "confirm"
    /\ output_exists' = FALSE
    /\ fpc' = "zip"
    /\ UNCHANGED <<saved, pdf_fields, student_data, feedback_zip, finalized, answers,
                   besidesFinalize>>

\* with ZipFile(output, "x") as feedback_zip
OpenZip ==
    /\ fpc = "zip"
    /\ ~output_exists
    /\ output_exists' = TRUE
    /\ feedback_zip' = <<>>
    /\ finalized' = 0
    /\ fpc' = "entries"
    /\ UNCHANGED <<saved, pdf_fields, student_data, answers, besidesFinalize>>

\* the entry that the loop takes next, and the points of its PDF
Info == student_data[finalized + 1]

PdfPoints == get_points(pdf_fields[Info.pdf_location])

\* feedback_zip.write(pdf_path, info.feedback_location)
Written(zip, info) ==
    Append(zip, [filename |-> info.pdf_location, arcname |-> info.feedback_location])

\* a turn of the loop without a question: info.points = pdf_points
FinalizeEntry ==
    /\ fpc = "entries"
    /\ finalized < Len(student_data)
    /\ ~Differ(Info.points, PdfPoints)
    /\ student_data' = [student_data EXCEPT ![finalized + 1].points = PdfPoints]
    /\ feedback_zip' = Written(feedback_zip, Info)
    /\ answers' = Append(answers, <<>>)
    /\ finalized' = finalized + 1
    /\ UNCHANGED <<fpc, saved, output_exists, pdf_fields, besidesFinalize>>

\* a turn of the loop with a question, answered with a number:
\* info.points = float(Prompt.ask(...)), and set_points if the PDF differs
FinalizeAsked ==
    /\ fpc = "entries"
    /\ finalized < Len(student_data)
    /\ Differ(Info.points, PdfPoints)
    /\ \E answer \in Choices(Info.points, PdfPoints) :
          /\ float(answer).raised = ""
          /\ answers' = Append(answers, answer)
          /\ student_data' = [student_data EXCEPT ![finalized + 1].points = float(answer).value]
          /\ pdf_fields' =
                IF NeedsWrite(PdfPoints, float(answer).value)
                THEN set_points(pdf_fields, Info.pdf_location, float(answer).value)
                ELSE pdf_fields
    /\ feedback_zip' = Written(feedback_zip, Info)
    /\ finalized' = finalized + 1
    /\ UNCHANGED <<fpc, saved, output_exists, besidesFinalize>>

\* a turn of the loop with a question, answered with "None": float raises
\* ValueError, which leaves finalize
FinalizeRaise ==
    /\ fpc = "entries"
    /\ finalized < Len(student_data)
    /\ Differ(Info.points, PdfPoints)
    /\ \E answer \in Choices(Info.points, PdfPoints) :
          /\ float(answer).raised # ""
          /\ answers' = Append(answers, answer)
    /\ fpc' = "raised"
    /\ UNCHANGED <<saved, output_exists, pdf_fields, student_data, feedback_zip, finalized,
                   besidesFinalize>>

\* data_file.write_text(data.model_dump_json(indent=2))
WriteData ==
    /\ fpc = "entries"
    /\ finalized = Len(student_data)
    /\ saved' = student_data
    /\ fpc' = "done"
    /\ UNCHANGED <<output_exists, pdf_fields, student_data, feedback_zip, finalized, answers,
                   besidesFinalize>>

FinalizeNext ==
    \/ Finalize \/ Abort \/ Replace \/ OpenZip
    \/ FinalizeEntry \/ FinalizeAsked \/ FinalizeRaise \/ WriteData

FinalizeSpec == FinalizeInit /\ [][FinalizeNext]_vars

\* the text, with a comma read as a decimal point, is a rendering of the
\* number of n tenths
Denotes(text, n) ==
    \/ Replaced(text) = FloatStr(n)
    \/ n % 10 = 0 /\ Replaced(text) = Decimal(n \div 10)

\* the points that the grade field of a PDF holds; None if it holds none
StoredPoints(field) ==
    IF field.present /\ \E n \in 0..99 : Denotes(field.text, n)
    THEN Atom("float", CHOOSE n \in 0..99 : Denotes(field.text, n))
    ELSE Atom("none", 0)

\* what a turn of the loop does to the j-th entry
Turn(j) ==
    LET before == student_data[j].points
        after == student_data'[j].points
        location == student_data[j].pdf_location
        stored == StoredPoints(pdf_fields[location])
    IN /\ (before = Atom("none", 0) \/ before = stored) =>
              /\ after = stored
              /\ pdf_fields' = pdf_fields
       /\ (before # Atom("none", 0) /\ before # stored) =>
              /\ answers'[j] \in {StrOf(before), StrOf(stored)}
              /\ StrOf(after) = answers'[j]
              /\ pdf_fields' =
                    IF after = stored THEN pdf_fields
                    ELSE [pdf_fields EXCEPT ![location] = [present |-> TRUE, text |-> answers'[j]]]
       /\ StoredPoints(pdf_fields'[location]) = after
       /\ feedback_zip' = Append(feedback_zip, [filename |-> location,
                                                arcname |-> student_data[j].feedback_location])
       /\ \A m \in 1..Len(student_data) : m # j => student_data'[m] = student_data[m]

====
